---------------------------- MODULE Spec2Model ----------------------------
(***************************************************************************)
(* jcvi.assembly.finish: scaffold(), build_agp() and solve_component().     *)
(*                                                                         *)
(* Contig and bucket names are Python strings; they are modelled as the    *)
(* tuples of their character codes, so that sorted() and rsplit("_", 1)    *)
(* are computed on the characters.  Orientation codes such as "+-" are     *)
(* the pairs of their characters, <<"+", "-">>.                            *)
(***************************************************************************)
EXTENDS Integers, Sequences, FiniteSets, TLC

VARIABLES
    pc,              \* position of scaffold(): start, solve, fill, emit, close, done, aborted
    prefix,          \* opts.prefix
    sizes,           \* Sizes(ctgfasta).mapping : contig id -> length
    linkrows,        \* the rows of linksfile, as (aseqid, bseqid, orientation, distance)
    g,               \* the multigraph: its edges in insertion order
    comps,           \* connected components not yet handed to solve_component
    scaffoldbuckets, \* defaultdict(list): bucket name -> list of partial orders
    ctgbuckets,      \* defaultdict(set): bucket name -> set of contig ids
    bqueue,          \* the bucket names sorted(ctgbuckets.items()) has yet to visit
    fwphase,         \* rows printed to the .phases file
    fwagp,           \* rows printed to the .agp file
    fwlog,           \* rows printed to scaffold.log
    apc,             \* position of build_agp(): idle, loop, done
    object,          \* build_agp's arguments and locals
    ctgorder,
    idx,
    object_beg,
    part_number,
    spc,             \* position of solve_component(): idle, signs, positions, bed, done
    h,               \* the component: [nodes |-> sorted node list, edges |-> edge list]
    signs,
    dedges,
    positions,
    bed              \* the list solve_component returns

vars == <<pc, prefix, sizes, linkrows, g, comps, scaffoldbuckets, ctgbuckets,
          bqueue, fwphase, fwagp, fwlog, apc, object, ctgorder, idx,
          object_beg, part_number, spc, h, signs, dedges, positions, bed>>

scaffoldVars == <<pc, prefix, linkrows, g, comps, scaffoldbuckets, ctgbuckets,
                  bqueue, fwphase>>
agpVars == <<apc, object, ctgorder, idx, object_beg, part_number>>
solveVars == <<spc, h, signs, dedges, positions, bed>>

-----------------------------------------------------------------------------
(* Bounds of the model *)

\* rows of the links file
MaxLinks == 2
\* entries of the ctgorder handed to build_agp
MaxCtg == 3
\* edges of the component handed to solve_component
MaxEdges == 2

(* Program constants *)

\* build_agp(..., gap_length=100)
gap_length == 100
\* distance = max(c.distance, 50)
MinDistance == 50

-----------------------------------------------------------------------------
(* Strings as tuples of character codes *)

\* "a_1", "a_2", "b_1", "c9": the contig ids of the model
CtgA1 == <<97, 95, 49>>
CtgA2 == <<97, 95, 50>>
CtgB1 == <<98, 95, 49>>
CtgC9 == <<99, 57>>

\* "chr0"
DefaultBucket == <<99, 104, 114, 48>>

Min2(x, y) == IF x <= y THEN x ELSE y
Max2(x, y) == IF x >= y THEN x ELSE y

\* Python's str.__lt__: lexicographic on the characters, a proper prefix first
StrLess(s, t) ==
    \E i \in 1..(Len(t)) :
        /\ \A j \in 1..(i - 1) : j <= Len(s) /\ s[j] = t[j]
        /\ (i > Len(s) \/ s[i] < t[i])

RECURSIVE SortedStrs(_)
\* sorted(S) for a set of strings
SortedStrs(S) ==
    IF S = {} THEN <<>>
    ELSE LET m == CHOOSE x \in S : \A y \in S : ~StrLess(y, x)
         IN <<m>> \o SortedStrs(S \ {m})

\* sname.rsplit("_", 1)[0]: all before the last "_" (code 95), or the whole name
RsplitHead(sname) ==
    LET us == {i \in 1..Len(sname) : sname[i] = 95}
    IN IF us = {} THEN sname
       ELSE SubSeq(sname, 1, (CHOOSE i \in us : \A j \in us : j <= i) - 1)

get_bname(sname, usePrefix) ==
    IF usePrefix THEN RsplitHead(sname) ELSE DefaultBucket

Range(s) == {s[i] : i \in 1..Len(s)}

RECURSIVE SumSeq(_)
SumSeq(s) == IF s = <<>> THEN 0 ELSE Head(s) + SumSeq(Tail(s))

RECURSIVE Flatten(_)
\* the concatenation of a list of lists
Flatten(ss) == IF ss = <<>> THEN <<>> ELSE Head(ss) \o Flatten(Tail(ss))

-----------------------------------------------------------------------------
(* build_agp *)

\* faulty variant: the gap's end computed as beg + gap_length
GapRow_long(obj, beg, part) ==
    <<obj, beg, beg + gap_length, part, "U", gap_length, "fragment", "yes", "">>

\* the gap row printed when i > 0
GapRow(obj, beg, part) ==
    <<obj, beg, beg + gap_length - 1, part, "U", gap_length, "fragment", "yes", "">>

\* faulty variant: the component's end computed as beg + size
ComponentRow_long(obj, beg, part, component_id, orientation, sz) ==
    <<obj, beg, beg + sz[component_id], part, "W", component_id,
      1, sz[component_id], orientation>>

\* the component row
ComponentRow(obj, beg, part, component_id, orientation, sz) ==
    <<obj, beg, beg + sz[component_id] - 1, part, "W", component_id,
      1, sz[component_id], orientation>>

\* faulty variant: the gap row printed before the first entry too
AgpIter_gapfirst(obj, i, entry, beg, part, sz) ==
    LET row == ComponentRow(obj, beg + gap_length, part + 1, entry[1], entry[2], sz)
    IN [rows |-> <<GapRow(obj, beg, part), row>>,
        object_beg |-> row[3] + 1, part_number |-> part + 2]

\* One iteration of build_agp's loop, entry number i (0-based) of the ctgorder:
\* the rows it prints and the cursor it leaves.
AgpIter(obj, i, entry, beg, part, sz) ==
    LET gap  == IF i # 0 THEN <<GapRow(obj, beg, part)>> ELSE <<>>
        beg2 == IF i # 0 THEN beg + gap_length ELSE beg
        prt2 == IF i # 0 THEN part + 1 ELSE part
        row  == ComponentRow(obj, beg2, prt2, entry[1], entry[2], sz)
    IN [rows |-> gap \o <<row>>, object_beg |-> row[3] + 1, part_number |-> prt2 + 1]

RECURSIVE AgpFrom(_, _, _, _, _, _)
AgpFrom(obj, order, i, beg, part, sz) ==
    IF i >= Len(order) THEN <<>>
    ELSE LET it == AgpIter(obj, i, order[i + 1], beg, part, sz)
         IN it.rows \o AgpFrom(obj, order, i + 1, it.object_beg, it.part_number, sz)

\* all the rows one call of build_agp prints
build_agp(obj, order, sz) == AgpFrom(obj, order, 0, 1, 1, sz)

-----------------------------------------------------------------------------
(* Rationals in lowest terms, [n |-> numerator, d |-> denominator > 0] *)

Abs(x) == IF x < 0 THEN -x ELSE x

RECURSIVE Gcd(_, _)
Gcd(x, y) == IF y = 0 THEN x ELSE Gcd(y, x % y)

Rat(n, d) ==
    LET k == Gcd(Abs(n), Abs(d))
        s == IF d < 0 THEN -1 ELSE 1
    IN [n |-> s * (n \div k), d |-> s * (d \div k)]

RatInt(n) == [n |-> n, d |-> 1]
RatAdd(x, y) == Rat(x.n * y.d + y.n * x.d, x.d * y.d)
RatSub(x, y) == Rat(x.n * y.d - y.n * x.d, x.d * y.d)
RatNeg(x) == [n |-> -x.n, d |-> x.d]
RatLess(x, y) == x.n * y.d < y.n * x.d

-----------------------------------------------------------------------------
(* jcvi.assembly.base.orientationflips and jcvi.algorithms.matrix *)

Plus == "+"
Minus == "-"
Orientations == {<<Plus, Plus>>, <<Plus, Minus>>, <<Minus, Plus>>, <<Minus, Minus>>}

FlipChar(c) == IF c = Plus THEN Minus ELSE Plus

\* orientationflips: the code of the same link seen from the other strand
orientationflips(o) == <<FlipChar(o[1]), FlipChar(o[2])>>

\* the sign an edge of relation rel implies for a node whose neighbour has sign s
Implied(rel, s) == IF rel = Plus THEN s ELSE -s

\* The votes for node v: the edges between v and an already resolved node, in
\* ascending order of the canonical node pair (then in input order), each as
\* the sign it implies for v.
Votes(v, ledges, sg) ==
    LET N == Len(sg)
        cast(u) ==
            LET idxs == {i \in 1..Len(ledges) :
                            /\ {ledges[i][1], ledges[i][2]} = {u, v}
                            /\ u # v}
                F[k \in 0..Len(ledges)] ==
                    IF k = 0 THEN <<>>
                    ELSE IF k \in idxs
                         THEN F[k - 1] \o <<Implied(ledges[k][3], sg[u])>>
                         ELSE F[k - 1]
            IN F[Len(ledges)]
        G[u \in 0..N] ==
            IF u = 0 THEN <<>>
            ELSE IF sg[u] # 0 THEN G[u - 1] \o cast(u) ELSE G[u - 1]
    IN G[N]

RECURSIVE Propagate(_, _)
\* sg[i] = 0 while node i is unresolved; the next node resolved is the lowest
\* unresolved one that has an edge to a resolved one
Propagate(ledges, sg) ==
    LET N == Len(sg)
        frontier == {v \in 1..N : sg[v] = 0 /\ Votes(v, ledges, sg) # <<>>}
    IN IF frontier = {} THEN sg
       ELSE LET v == CHOOSE x \in frontier : \A y \in frontier : x <= y
                votes == Votes(v, ledges, sg)
                total == SumSeq(votes)
                s == IF total > 0 THEN 1
                     ELSE IF total < 0 THEN -1
                     ELSE votes[1]
            IN Propagate(ledges, [sg EXCEPT ![v] = s])

\* determine_signs(nodes, ledges): the first node is the root, with sign +1
determine_signs(N, ledges) ==
    Propagate(ledges, [i \in 1..N |-> IF i = 1 THEN 1 ELSE 0])

\* the matrix without row r and column c
Minor(M, r, c) ==
    LET m == Len(M)
    IN [i \in 1..(m - 1) |->
          [j \in 1..(m - 1) |->
              M[IF i < r THEN i ELSE i + 1][IF j < c THEN j ELSE j + 1]]]

RECURSIVE Det(_)
Det(M) ==
    IF Len(M) = 0 THEN 1
    ELSE LET term[j \in 0..Len(M)] ==
                 IF j = 0 THEN 0
                 ELSE term[j - 1]
                      + (IF j % 2 = 1 THEN 1 ELSE -1) * M[1][j] * Det(Minor(M, 1, j))
         IN term[Len(M)]

\* determine_positions(nodes, dedges): the least-squares solution of
\* position[b] - position[a] = distance over the edges, the first node
\* anchored at 0.  With L the Laplacian of the edges without the anchor's row
\* and column and r the right-hand side, position = L^-1 r by Cramer's rule.
determine_positions(N, es) ==
    LET real == {i \in 1..Len(es) : es[i][1] # es[i][2]}
        cnt(S) == Cardinality(S)
        L == [i \in 1..(N - 1) |-> [j \in 1..(N - 1) |->
                IF i = j
                THEN cnt({k \in real : (i + 1) \in {es[k][1], es[k][2]}})
                ELSE -cnt({k \in real : {es[k][1], es[k][2]} = {i + 1, j + 1}})]]
        rsum[k \in 0..Len(es)] ==
            [v \in 1..N |->
                IF k = 0 THEN 0
                ELSE rsum[k - 1][v]
                     + (IF k \in real /\ es[k][2] = v THEN es[k][3] ELSE 0)
                     - (IF k \in real /\ es[k][1] = v THEN es[k][3] ELSE 0)]
        r == rsum[Len(es)]
        D == Det(L)
        Lc(c) == [i \in 1..(N - 1) |-> [j \in 1..(N - 1) |->
                    IF j = c THEN r[i + 1] ELSE L[i][j]]]
    IN IF N > 1 /\ es = <<>>
       THEN [ok |-> FALSE, error |-> "UnresolvableComponentError"]
       ELSE IF D = 0
       THEN [ok |-> FALSE, error |-> "RankDeficient"]
       ELSE [ok |-> TRUE,
             positions |-> [v \in 1..N |->
                 IF v = 1 THEN RatInt(0) ELSE Rat(Det(Lc(v - 1)), D)]]

-----------------------------------------------------------------------------
(* solve_component *)

\* inodes[x] (1-based)
inodes(nodes, x) == CHOOSE i \in 1..Len(nodes) : nodes[i] = x

\* one entry of ledges: the endpoints by ascending index, and whether the
\* two characters of the orientation code agree
Ledge(e, nodes) ==
    LET a == inodes(nodes, e[1])
        b == inodes(nodes, e[2])
    IN <<Min2(a, b), Max2(a, b), IF e[3][1] = e[3][2] THEN Plus ELSE Minus>>

SignChar(s) == IF s > 0 THEN Plus ELSE Minus

\* faulty variant: "if orientation != pair" instead of "elif": a flipped edge is dropped
PositionEdge_if(e, nodes, sg) ==
    LET ia == inodes(nodes, e[1])
        ib == inodes(nodes, e[2])
        a == Min2(ia, ib)
        b == Max2(ia, ib)
        pair == <<SignChar(sg[a]), SignChar(sg[b])>>
    IN IF e[3] # pair THEN <<>> ELSE << <<a, b, e[4]>> >>

\* faulty variant: the distance of a flipped edge not negated
PositionEdge_nonegate(e, nodes, sg) ==
    LET ia == inodes(nodes, e[1])
        ib == inodes(nodes, e[2])
        a == Min2(ia, ib)
        b == Max2(ia, ib)
        pair == <<SignChar(sg[a]), SignChar(sg[b])>>
    IN IF orientationflips(e[3]) = pair THEN << <<a, b, e[4]>> >>
       ELSE IF e[3] # pair THEN <<>>
       ELSE << <<a, b, e[4]>> >>

\* What the position loop appends to dedges for one edge: nothing, or the
\* edge with its distance negated or kept
PositionEdge(e, nodes, sg) ==
    LET ia == inodes(nodes, e[1])
        ib == inodes(nodes, e[2])
        a == Min2(ia, ib)
        b == Max2(ia, ib)
        pair == <<SignChar(sg[a]), SignChar(sg[b])>>
    IN IF orientationflips(e[3]) = pair THEN << <<a, b, -e[4]>> >>
       ELSE IF e[3] # pair THEN <<>>
       ELSE << <<a, b, e[4]>> >>

PositionEdges(edges, nodes, sg) ==
    Flatten([i \in 1..Len(edges) |-> PositionEdge(edges[i], nodes, sg)])

\* one tuple of bed, before the sort
BedEntry(node, sign, position, sz) ==
    IF sign < 0
    THEN <<node, RatSub(position, RatInt(sz[node])), position, Minus>>
    ELSE <<node, position, RatAdd(position, RatInt(sz[node])), Plus>>

\* list.sort(key = start): stable
SortByStart(b) ==
    LET rank(i) == 1 + Cardinality({j \in 1..Len(b) :
                        \/ RatLess(b[j][2], b[i][2])
                        \/ (b[j][2] = b[i][2] /\ j < i)})
    IN [k \in 1..Len(b) |-> b[CHOOSE i \in 1..Len(b) : rank(i) = k]]

\* key(min(bed, key=key))
MinStart(b) ==
    b[CHOOSE i \in 1..Len(b) : \A j \in 1..Len(b) : ~RatLess(b[j][2], b[i][2])][2]

\* the rows the last loop prints: the tuples shifted by offset
Shifted(b, offset) ==
    [k \in 1..Len(b) |->
        <<b[k][1], RatSub(b[k][2], offset), RatSub(b[k][3], offset), b[k][4]>>]

\* lines 223-245: the list returned, which is bed sorted
BedOf(nodes, sg, pos, sz) ==
    SortByStart([i \in 1..Len(nodes) |-> BedEntry(nodes[i], sg[i], pos[i], sz)])

\* The whole of solve_component(h, sizes, fwlog): what it returns, or the
\* exception it raises, and the lines it has printed to fwlog by then.
solve_component(hh, sz) ==
    LET nodes == hh.nodes
        N == Len(nodes)
        ledges == [i \in 1..Len(hh.edges) |-> Ledge(hh.edges[i], nodes)]
        sg == determine_signs(N, ledges)
        de == PositionEdges(hh.edges, nodes, sg)
        dp == determine_positions(N, de)
        log2 == << <<N, nodes>>, sg >>
    IN IF ~dp.ok THEN [ok |-> FALSE, error |-> dp.error, log |-> log2]
       ELSE IF \E i \in 1..N : nodes[i] \notin DOMAIN sz
       THEN [ok |-> FALSE, error |-> "KeyError", log |-> log2 \o <<dp.positions>>]
       ELSE LET b == BedOf(nodes, sg, dp.positions, sz)
            IN [ok |-> TRUE, bed |-> b,
                log |-> log2 \o <<dp.positions>> \o Shifted(b, MinStart(b))]

-----------------------------------------------------------------------------
(* The multigraph *)

NodesOf(edges) == UNION {{edges[i][1], edges[i][2]} : i \in 1..Len(edges)}

RECURSIVE Reach(_, _)
Reach(S, edges) ==
    LET T == S \cup {n \in NodesOf(edges) :
                        \E i \in 1..Len(edges) :
                            {edges[i][1], edges[i][2]} \cap S # {}
                            /\ n \in {edges[i][1], edges[i][2]}}
    IN IF T = S THEN S ELSE Reach(T, edges)

\* the node sets of nx.connected_component_subgraphs(g)
ComponentsOf(edges) == {Reach({n}, edges) : n \in NodesOf(edges)}

\* the subgraph on the node set C: its nodes sorted, its edges with their data
Subgraph(edges, C) ==
    [nodes |-> SortedStrs(C),
     edges |-> SelectSeq(edges, LAMBDA e : e[1] \in C)]

\* the sequences over S of a length in lo..hi
SeqsOf(S, lo, hi) == UNION {[1..n -> S] : n \in lo..hi}

-----------------------------------------------------------------------------
(* Inputs *)

SizesLong  == (CtgA1 :> 500) @@ (CtgA2 :> 300) @@ (CtgB1 :> 120)
SizesShort == (CtgA1 :> 200) @@ (CtgA2 :> 200) @@ (CtgB1 :> 50)
SizesFull  == SizesLong @@ (CtgC9 :> 80)

\* size tables of build_agp's runs
SizeTables == {SizesLong, SizesShort}

\* size tables of scaffold's runs: contig c9 is in the links file, and in
\* one of the two FASTA files
ScaffoldSizeTables == {SizesLong, SizesFull}

\* rows of the links file: c.aseqid, c.bseqid, c.orientation, c.distance
LinkRows == {<<p[1], p[2], o, d>> :
                p \in {<<CtgA1, CtgA2>>, <<CtgA1, CtgB1>>,
                       <<CtgA2, CtgB1>>, <<CtgB1, CtgC9>>},
                o \in Orientations, d \in {30}}

\* edges of the component handed to solve_component: two of its nodes in
\* either order of mention, or a node with itself
ComponentEdges == {<<p[1], p[2], o, d>> :
                     p \in {<<CtgA1, CtgA2>>, <<CtgB1, CtgA1>>,
                            <<CtgA2, CtgB1>>, <<CtgA1, CtgA1>>},
                     o \in Orientations, d \in {50, 200}}

Idle == "idle"

-----------------------------------------------------------------------------
(* build_agp, one iteration of its loop at a time *)

AgpIdle ==
    /\ apc = Idle /\ object = <<>> /\ ctgorder = <<>>
    /\ idx = 0 /\ object_beg = 0 /\ part_number = 0

SolveIdle ==
    /\ spc = Idle /\ h = <<>> /\ signs = <<>>
    /\ dedges = <<>> /\ positions = <<>> /\ bed = <<>>

ScaffoldIdle ==
    /\ pc = Idle /\ prefix = FALSE /\ linkrows = <<>> /\ g = <<>> /\ comps = {}
    /\ scaffoldbuckets = <<>> /\ ctgbuckets = <<>> /\ bqueue = <<>>
    /\ fwphase = <<>>

AgpInit ==
    /\ ScaffoldIdle /\ SolveIdle
    /\ sizes \in SizeTables
    /\ fwagp = <<>> /\ fwlog = <<>>
    /\ apc = "loop"
    /\ object \in {DefaultBucket, <<97>>}
    /\ ctgorder \in SeqsOf({CtgA1, CtgA2, CtgB1} \X {Plus, Minus}, 0, MaxCtg)
    /\ idx = 0
    /\ object_beg = 1
    /\ part_number = 1

\* lines 145-169: one iteration
AgpStep ==
    /\ apc = "loop"
    /\ idx < Len(ctgorder)
    /\ LET it == AgpIter(object, idx, ctgorder[idx + 1], object_beg, part_number, sizes)
       IN /\ fwagp' = fwagp \o it.rows
          /\ object_beg' = it.object_beg
          /\ part_number' = it.part_number
    /\ idx' = idx + 1
    /\ UNCHANGED <<scaffoldVars, solveVars, sizes, fwlog, apc, object, ctgorder>>

\* the loop is exhausted and build_agp returns
AgpReturn ==
    /\ apc = "loop"
    /\ idx = Len(ctgorder)
    /\ apc' = "done"
    /\ UNCHANGED <<scaffoldVars, solveVars, sizes, fwlog, fwagp, object, ctgorder,
                   idx, object_beg, part_number>>

AgpNext == AgpStep \/ AgpReturn

SpecAgp == AgpInit /\ [][AgpNext]_vars

-----------------------------------------------------------------------------
(* solve_component, one phase at a time *)

SolveInit ==
    /\ ScaffoldIdle /\ AgpIdle
    /\ sizes = SizesShort
    /\ fwagp = <<>> /\ fwlog = <<>>
    /\ spc = "signs"
    /\ \E es \in SeqsOf(ComponentEdges, 1, MaxEdges) :
          /\ Cardinality(ComponentsOf(es)) = 1
          /\ h = Subgraph(es, NodesOf(es))
    /\ signs = <<>> /\ dedges = <<>> /\ positions = <<>> /\ bed = <<>>

\* lines 179-198
SolveSigns ==
    /\ spc = "signs"
    /\ LET N == Len(h.nodes)
           ledges == [i \in 1..Len(h.edges) |-> Ledge(h.edges[i], h.nodes)]
       IN /\ signs' = determine_signs(N, ledges)
          /\ fwlog' = fwlog \o << <<N, h.nodes>>, signs' >>
    /\ spc' = "positions"
    /\ UNCHANGED <<scaffoldVars, agpVars, sizes, fwagp, h, dedges, positions, bed>>

\* lines 200-221
SolvePositions ==
    /\ spc = "positions"
    /\ dedges' = PositionEdges(h.edges, h.nodes, signs)
    /\ LET dp == determine_positions(Len(h.nodes), dedges')
       IN IF dp.ok
          THEN /\ positions' = dp.positions
               /\ fwlog' = fwlog \o <<dp.positions>>
               /\ spc' = "bed"
          ELSE /\ spc' = dp.error
               /\ UNCHANGED <<positions, fwlog>>
    /\ UNCHANGED <<scaffoldVars, agpVars, sizes, fwagp, h, signs, bed>>

\* lines 223-245
SolveBed ==
    /\ spc = "bed"
    /\ IF \E i \in 1..Len(h.nodes) : h.nodes[i] \notin DOMAIN sizes
       THEN /\ spc' = "KeyError"
            /\ UNCHANGED <<bed, fwlog>>
       ELSE /\ bed' = BedOf(h.nodes, signs, positions, sizes)
            /\ fwlog' = fwlog \o Shifted(bed', MinStart(bed'))
            /\ spc' = "done"
    /\ UNCHANGED <<scaffoldVars, agpVars, sizes, fwagp, h, signs, dedges, positions>>

SolveNext == SolveSigns \/ SolvePositions \/ SolveBed

SpecSolve == SolveInit /\ [][SolveNext]_vars

-----------------------------------------------------------------------------
(* scaffold *)

\* d[k] of a defaultdict(list)
ListAt(d, k) == IF k \in DOMAIN d THEN d[k] ELSE <<>>

\* faulty variant: the two complete phases exchanged
PhaseOf_swapped(nsingletons, nscaffolds) ==
    IF nsingletons = 1 /\ nscaffolds = 0 THEN 2
    ELSE IF nsingletons = 0 /\ nscaffolds = 1 THEN 3
    ELSE 1

\* lines 119-124
PhaseOf(nsingletons, nscaffolds) ==
    IF nsingletons = 1 /\ nscaffolds = 0 THEN 3
    ELSE IF nsingletons = 0 /\ nscaffolds = 1 THEN 2
    ELSE 1

\* lines 112-115: the (node, orientation) of every tuple of every scaffold
ScaffoldEntries(scaffolds) ==
    LET tuples == Flatten(scaffolds)
    IN [i \in 1..Len(tuples) |-> <<tuples[i][1], tuples[i][4]>>]

\* line 116
SingletonsOf(ctgs, scaffolds) ==
    SortedStrs(ctgs \ {t[1] : t \in Range(Flatten(scaffolds))})

\* faulty variant: the singletons ahead of the scaffolds
CtgOrderOf_singletonsfirst(scaffolds, singletons) ==
    [i \in 1..Len(singletons) |-> <<singletons[i], Plus>>]
        \o ScaffoldEntries(scaffolds)

\* lines 131-132, after the scaffold entries
CtgOrderOf(scaffolds, singletons) ==
    ScaffoldEntries(scaffolds)
        \o [i \in 1..Len(singletons) |-> <<singletons[i], Plus>>]

Init ==
    /\ AgpIdle /\ SolveIdle
    /\ pc = "start"
    /\ prefix \in BOOLEAN
    /\ sizes \in ScaffoldSizeTables
    /\ linkrows \in SeqsOf(LinkRows, 0, MaxLinks)
    /\ g = <<>> /\ comps = {}
    /\ scaffoldbuckets = <<>> /\ ctgbuckets = <<>> /\ bqueue = <<>>
    /\ fwphase = <<>> /\ fwagp = <<>> /\ fwlog = <<>>

\* lines 77-83, and the components line 95 is about to iterate
LoadLinks ==
    /\ pc = "start"
    /\ g' = [i \in 1..Len(linkrows) |->
                <<linkrows[i][1], linkrows[i][2], linkrows[i][3],
                  Max2(linkrows[i][4], MinDistance)>>]
    /\ comps' = ComponentsOf(g')
    /\ pc' = "solve"
    /\ UNCHANGED <<prefix, sizes, linkrows, scaffoldbuckets, ctgbuckets, bqueue,
                   fwphase, fwagp, fwlog, agpVars, solveVars>>

\* lines 95-99: one component, in the order the graph library yields them.
\* An exception of solve_component is not caught: scaffold ends with it.
SolveComponent ==
    /\ pc = "solve"
    /\ \E C \in comps : \E r \in {solve_component(Subgraph(g, C), sizes)} :
            /\ fwlog' = fwlog \o r.log
            /\ IF r.ok
               THEN LET bname == get_bname(r.bed[1][1], prefix)
                    IN /\ scaffoldbuckets' =
                             [b \in DOMAIN scaffoldbuckets \cup {bname} |->
                                 IF b = bname
                                 THEN Append(ListAt(scaffoldbuckets, b), r.bed)
                                 ELSE scaffoldbuckets[b]]
                       /\ comps' = comps \ {C}
                       /\ pc' = pc
               ELSE /\ pc' = "aborted"
                    /\ UNCHANGED <<scaffoldbuckets, comps>>
    /\ UNCHANGED <<prefix, sizes, linkrows, g, ctgbuckets, bqueue,
                   fwphase, fwagp, agpVars, solveVars>>

\* lines 101-108: the buckets of the size table's ids, and their sorted names
FillBuckets ==
    /\ pc = "solve"
    /\ comps = {}
    /\ ctgbuckets' = [b \in {get_bname(n, prefix) : n \in DOMAIN sizes} |->
                         {n \in DOMAIN sizes : get_bname(n, prefix) = b}]
    /\ bqueue' = SortedStrs(DOMAIN ctgbuckets')
    /\ pc' = "emit"
    /\ UNCHANGED <<prefix, sizes, linkrows, g, comps, scaffoldbuckets,
                   fwphase, fwagp, fwlog, agpVars, solveVars>>

\* lines 108-134: one bucket, build_agp's call included
EmitBucket ==
    /\ pc = "emit"
    /\ bqueue # <<>>
    /\ LET bname == Head(bqueue)
           scaffolds == ListAt(scaffoldbuckets, bname)
       IN \E singletons \in {SingletonsOf(ctgbuckets[bname], scaffolds)} :
          \E phase \in {PhaseOf(Len(singletons), Len(scaffolds))} :
          \E order \in {CtgOrderOf(scaffolds, singletons)} :
          \E rows \in {build_agp(bname, order, sizes)} :
          /\ fwphase' = Append(fwphase, <<bname, phase>>)
          /\ fwagp' = fwagp \o rows
          /\ apc' = "done"
          /\ object' = bname
          /\ ctgorder' = order
          /\ idx' = Len(order)
          /\ object_beg' = IF rows = <<>> THEN 1 ELSE rows[Len(rows)][3] + 1
          /\ part_number' = Len(rows) + 1
    /\ bqueue' = Tail(bqueue)
    /\ UNCHANGED <<pc, prefix, sizes, linkrows, g, comps, scaffoldbuckets,
                   ctgbuckets, fwlog, solveVars>>

\* lines 136-139: the files are closed and handed to build() and tidy()
Close ==
    /\ pc = "emit"
    /\ bqueue = <<>>
    /\ pc' = "done"
    /\ UNCHANGED <<prefix, sizes, linkrows, g, comps, scaffoldbuckets, ctgbuckets,
                   bqueue, fwphase, fwagp, fwlog, agpVars, solveVars>>

Next == LoadLinks \/ SolveComponent \/ FillBuckets \/ EmitBucket \/ Close

Spec == Init /\ [][Next]_vars

-----------------------------------------------------------------------------
(* Properties of build_agp, under SpecAgp *)

IsComponentRow(r) == r[5] = "W"
IsGapRow(r) == r[5] = "U"
SpanOf(r) == r[3] - r[2] + 1

\* the component rows among rows, in order
ComponentRows(rows) == SelectSeq(rows, IsComponentRow)

\* C2: the rows carry 1-based contiguous object coordinates: the first row
\* starts at 1, every later row starts at the previous row's end + 1, and the
\* j-th component row is the j-th entry's contig with the entry's
\* orientation, spanning exactly its length, from 1 to its length within
\* the contig.
C2_ContiguousCoordinates ==
    apc \in {"loop", "done"} =>
        /\ fwagp # <<>> => fwagp[1][2] = 1
        /\ \A k \in 2..Len(fwagp) : fwagp[k][2] = fwagp[k - 1][3] + 1
        /\ Len(ComponentRows(fwagp)) = idx
        /\ \A j \in 1..idx :
              LET r == ComponentRows(fwagp)[j]
              IN /\ r[6] = ctgorder[j][1]
                 /\ r[9] = ctgorder[j][2]
                 /\ r[3] - r[2] + 1 = sizes[ctgorder[j][1]]
                 /\ r[7] = 1
                 /\ r[8] = sizes[ctgorder[j][1]]

C2_Witness ==
    /\ apc = "done"
    /\ Len(ctgorder) = 3
    /\ ctgorder[2][2] = Minus
    /\ ctgorder[1][1] # ctgorder[2][1]

\* the rows alternate W, U, W, ..., W: after n entries there are n component
\* rows and n - 1 gap rows, each gap row of type U, gap type fragment, linkage
\* yes and exactly 100 bases, and row k carries part number k
AlternatingRows ==
    apc \in {"loop", "done"} =>
        /\ Len(fwagp) = IF idx = 0 THEN 0 ELSE 2 * idx - 1
        /\ apc = "done" => idx = Len(ctgorder)
        /\ \A k \in 1..Len(fwagp) :
              /\ fwagp[k][4] = k
              /\ fwagp[k][1] = object
              /\ IF k % 2 = 1
                 THEN IsComponentRow(fwagp[k])
                 ELSE /\ IsGapRow(fwagp[k])
                      /\ fwagp[k][6] = 100
                      /\ fwagp[k][7] = "fragment"
                      /\ fwagp[k][8] = "yes"
                      /\ SpanOf(fwagp[k]) = 100

\* a step leaves the rows already printed as they are
AppendOnly ==
    /\ Len(fwagp') >= Len(fwagp)
    /\ SubSeq(fwagp', 1, Len(fwagp)) = fwagp

\* C3: a gap row of exactly 100 bases (type U, fragment, linkage yes) is
\* printed before every entry except the first and nowhere else, part numbers
\* start at 1 and grow by 1 with every row, and no printed row is rewritten.
C3_GapsAndPartNumbers == []AlternatingRows /\ [][AppendOnly]_vars

C3_Witness ==
    /\ apc = "done"
    /\ Len(ctgorder) = 3
    /\ Len(fwagp) = 5

SizeSum(order) == SumSeq([j \in 1..Len(order) |-> sizes[order[j][1]]])
SpanSum(rows) == SumSeq([k \in 1..Len(rows) |-> SpanOf(rows[k])])

\* C4 as the spec states it: the spans sum to
\* numComponents * (100 * (numComponents - 1)) + the contig lengths
C4_SpanSumAsStated ==
    apc = "done" =>
        SpanSum(fwagp) =
            Len(ctgorder) * (IF Len(ctgorder) > 0 THEN 100 * (Len(ctgorder) - 1) ELSE 0)
            + SizeSum(ctgorder)

\* C4, amended: the spans of all rows of a bucket sum to the gap contribution
\* 100 * (numComponents - 1), counted once, plus the contig lengths (and to 0
\* for no component).
C4_SpanSum ==
    apc = "done" =>
        SpanSum(fwagp) =
            (IF Len(ctgorder) > 0 THEN 100 * (Len(ctgorder) - 1) ELSE 0)
            + SizeSum(ctgorder)

C4_Witness ==
    /\ apc = "done"
    /\ Len(ctgorder) = 3
    /\ SpanSum(fwagp) = 200 + SizeSum(ctgorder)

-----------------------------------------------------------------------------
(* Properties of solve_component, under SpecSolve *)

\* the indices of the two endpoints of edge e, the lower first
EndsOf(e) ==
    LET ia == CHOOSE i \in 1..Len(h.nodes) : h.nodes[i] = e[1]
        ib == CHOOSE i \in 1..Len(h.nodes) : h.nodes[i] = e[2]
    IN IF ia <= ib THEN <<ia, ib>> ELSE <<ib, ia>>

\* the two-character code of the signs sg of the endpoints of e
PairOf(e, sg) ==
    <<IF sg[EndsOf(e)[1]] > 0 THEN "+" ELSE "-",
      IF sg[EndsOf(e)[2]] > 0 THEN "+" ELSE "-">>

\* the flipped arrangement of an orientation code
FlippedCode(o) ==
    CASE o = <<"+", "+">> -> <<"-", "-">>
      [] o = <<"+", "-">> -> <<"-", "+">>
      [] o = <<"-", "+">> -> <<"+", "-">>
      [] o = <<"-", "-">> -> <<"+", "+">>

\* the edges (by index) whose same/opposite relation agrees with the signs
Agreeing(sg) ==
    {i \in 1..Len(h.edges) :
        (h.edges[i][3][1] = h.edges[i][3][2])
            = (sg[EndsOf(h.edges[i])[1]] = sg[EndsOf(h.edges[i])[2]])}

\* the k-th smallest element of a set of numbers
Nth(S, k) == CHOOSE i \in S : Cardinality({j \in S : j < i}) = k - 1

\* C9: once the position loop has run, dedges holds, in edge order, exactly
\* the edges whose orientation code is the pair of the resolved signs (the
\* distance kept) or its flipped arrangement (the distance negated), each
\* with its endpoints by ascending index; the edges left out are exactly
\* those whose same/opposite relation disagrees with that of the signs.
C9_PositionFilter ==
    spc \in {"bed", "done"} =>
        /\ Len(dedges) = Cardinality(Agreeing(signs))
        /\ \A k \in 1..Len(dedges) :
              LET e == h.edges[Nth(Agreeing(signs), k)]
              IN /\ dedges[k][1] = EndsOf(e)[1]
                 /\ dedges[k][2] = EndsOf(e)[2]
                 /\ \/ e[3] = PairOf(e, signs) /\ dedges[k][3] = e[4]
                    \/ FlippedCode(e[3]) = PairOf(e, signs) /\ dedges[k][3] = -e[4]
        /\ \A i \in 1..Len(h.edges) :
              i \notin Agreeing(signs) <=>
                  /\ h.edges[i][3] # PairOf(h.edges[i], signs)
                  /\ FlippedCode(h.edges[i][3]) # PairOf(h.edges[i], signs)

\* a component of two edges, one mentioning its endpoints in descending
\* order: one is negated and the other discarded
C9_Witness ==
    /\ spc = "bed"
    /\ Len(h.edges) = 2
    /\ Len(dedges) = 1
    /\ dedges[1][3] < 0
    /\ \E i \in 1..2 : h.edges[i][1] = CtgB1 /\ h.edges[i][2] = CtgA1

SignVectors(N) == [1..N -> {1, -1}]
Negated(sg) == [i \in 1..Len(sg) |-> -sg[i]]
NegatedDistances(es) == [k \in 1..Len(es) |-> <<es[k][1], es[k][2], -es[k][3]>>]
Mirrored(t) == <<t[1], RatNeg(t[3]), RatNeg(t[2]), IF t[4] = "+" THEN "-" ELSE "+">>

\* C7: for every sign assignment of the component, negating every sign keeps
\* the same edges as distance constraints, each with its distance negated;
\* and the layout of the negated resolved signs is the mirror image of the
\* layout returned.
C7_Symmetry ==
    /\ spc # Idle =>
          \A sg \in SignVectors(Len(h.nodes)) :
              PositionEdges(h.edges, h.nodes, Negated(sg))
                  = NegatedDistances(PositionEdges(h.edges, h.nodes, sg))
    /\ spc = "done" =>
          LET de == PositionEdges(h.edges, h.nodes, Negated(signs))
              dp == determine_positions(Len(h.nodes), de)
          IN /\ dp.ok
             /\ Range(BedOf(h.nodes, Negated(signs), dp.positions, sizes))
                    = {Mirrored(t) : t \in Range(bed)}

C7_Witness ==
    /\ spc = "done"
    /\ Len(h.nodes) = 3
    /\ Len(h.edges) = 2
    /\ Len(dedges) = 2
    /\ dedges[1][3] < 0
    /\ \E k \in 1..3 : bed[k][2].n < 0

\* C8 as stated: the list returned is sorted by start and normalized: its
\* least start is 0, every start and end being shifted by the least start
C8_SortedAndNormalized ==
    spc = "done" =>
        /\ \A k \in 1..(Len(bed) - 1) : ~RatLess(bed[k + 1][2], bed[k][2])
        /\ bed[1][2] = RatInt(0)
        /\ \A k \in 1..Len(bed) :
              LET i == CHOOSE j \in 1..Len(h.nodes) : h.nodes[j] = bed[k][1]
                  lo == IF signs[i] > 0 THEN positions[i]
                        ELSE RatSub(positions[i], RatInt(sizes[h.nodes[i]]))
              IN /\ RatSub(bed[k][3], bed[k][2]) = RatInt(sizes[h.nodes[i]])
                 /\ bed[k][4] = (IF signs[i] > 0 THEN "+" ELSE "-")
                 /\ \E j \in 1..Len(h.nodes) :
                       LET loj == IF signs[j] > 0 THEN positions[j]
                                  ELSE RatSub(positions[j], RatInt(sizes[h.nodes[j]]))
                       IN bed[k][2] = RatSub(lo, loj)

-----------------------------------------------------------------------------
(* Properties of scaffold, under Spec *)

\* the (contig, orientation) of the component rows printed for bucket b
EntriesOf(b) ==
    LET rows == SelectSeq(fwagp, LAMBDA r : r[1] = b /\ r[5] = "W")
    IN [k \in 1..Len(rows) |-> <<rows[k][6], rows[k][9]>>]

\* how many component rows of the whole AGP file name contig n
Placements(n) ==
    Cardinality({k \in 1..Len(fwagp) : fwagp[k][5] = "W" /\ fwagp[k][6] = n})

\* the partial orders filed under bucket b
ScaffoldsOf(b) == IF b \in DOMAIN scaffoldbuckets THEN scaffoldbuckets[b] ELSE <<>>

\* the bucket names of the phase table, in order
PhaseNames == [k \in 1..Len(fwphase) |-> fwphase[k][1]]

\* C1 as stated: when scaffold is done every contig id of the size table has
\* been placed in exactly one bucket, exactly once
C1_ExactlyOneBucket ==
    pc = "done" => \A n \in DOMAIN sizes : Placements(n) = 1

\* C5: every row of the phase table gives its bucket phase 3 exactly when the
\* bucket has one singleton and no scaffold, 2 exactly when it has one
\* scaffold and no singleton, and 1 otherwise; no bucket has two rows, and
\* when scaffold is done every bucket has its row.
C5_PhaseTable ==
    /\ \A k \in 1..Len(fwphase) :
          LET b == fwphase[k][1]
              nscaffolds == Len(ScaffoldsOf(b))
              nsingletons ==
                  Cardinality({n \in DOMAIN sizes :
                      /\ (IF prefix THEN RsplitHead(n) ELSE DefaultBucket) = b
                      /\ \A i \in 1..nscaffolds :
                            \A j \in 1..Len(ScaffoldsOf(b)[i]) :
                                ScaffoldsOf(b)[i][j][1] # n})
          IN /\ fwphase[k][2] = 3 <=> (nsingletons = 1 /\ nscaffolds = 0)
             /\ fwphase[k][2] = 2 <=> (nsingletons = 0 /\ nscaffolds = 1)
             /\ fwphase[k][2] = 1 <=>
                   /\ ~(nsingletons = 1 /\ nscaffolds = 0)
                   /\ ~(nsingletons = 0 /\ nscaffolds = 1)
    /\ \A j, k \in 1..Len(fwphase) : j # k => fwphase[j][1] # fwphase[k][1]
    /\ pc = "done" =>
          Range(PhaseNames)
              = {IF prefix THEN RsplitHead(n) ELSE DefaultBucket : n \in DOMAIN sizes}

\* a run that wrote all three phases
C5_Witness ==
    /\ pc = "done"
    /\ {fwphase[k][2] : k \in 1..Len(fwphase)} = {1, 2, 3}

\* C6 as stated: a component whose resolution fails does not end the run
C6_FailureIsolation == pc # "aborted"

\* C10: the phase rows and the AGP rows come bucket by bucket in ascending
\* order of the bucket names; within a bucket the entries of its scaffolds
\* come first, scaffold after scaffold in the order they were resolved and
\* tuple after tuple in the order of each layout, and then its singletons in
\* ascending order of their ids, each oriented "+".
C10_OutputOrder ==
    /\ \A k \in 1..(Len(fwphase) - 1) : StrLess(fwphase[k][1], fwphase[k + 1][1])
    /\ \A j, k \in 1..Len(fwagp) : j < k => ~StrLess(fwagp[k][1], fwagp[j][1])
    /\ \A k \in 1..Len(fwagp) : fwagp[k][1] \in Range(PhaseNames)
    /\ \A k \in 1..Len(fwphase) :
          LET b == fwphase[k][1]
              ents == EntriesOf(b)
              tuples == Flatten(ScaffoldsOf(b))
              m == Len(tuples)
          IN /\ Len(ents) >= m
             /\ \A i \in 1..m :
                   ents[i] = <<tuples[i][1], tuples[i][4]>>
             /\ \A i \in (m + 1)..Len(ents) :
                   /\ ents[i][2] = "+"
                   /\ \A t \in 1..m : tuples[t][1] # ents[i][1]
                   /\ i < Len(ents) => StrLess(ents[i][1], ents[i + 1][1])
             /\ {ents[i][1] : i \in (m + 1)..Len(ents)}
                   = {n \in ctgbuckets[b] : \A t \in 1..m : tuples[t][1] # n}

\* a run of several buckets, one of them holding a scaffold that begins with
\* a "-" entry, followed by a singleton
C10_Witness ==
    /\ pc = "done"
    /\ Len(fwphase) >= 2
    /\ \E k \in 1..Len(fwphase) :
          /\ Len(ScaffoldsOf(fwphase[k][1])) = 1
          /\ Len(EntriesOf(fwphase[k][1])) = 3
          /\ EntriesOf(fwphase[k][1])[1][2] = "-"

=============================================================================
